---- MODULE Spec2Model ----
(***************************************************************************)
(* OpenMemoryService (google/adk/memory/open_memory_service.py): the write *)
(* path add_session_to_memory, the read path search_memory, and the        *)
(* enriched-content convention shared by both.                             *)
(*                                                                         *)
(* Python strings are sequences of one-character strings, so that the      *)
(* formatting of the write path and the regular expressions of the read    *)
(* path are computed character by character.  Salience values are in       *)
(* hundredths (0.8 is 80).                                                 *)
(***************************************************************************)
EXTENDS Integers, Sequences, FiniteSets, TLC

VARIABLES
  config_args,     \* keyword arguments given to OpenMemoryServiceConfig
  config,          \* self._config
  session,         \* the Session given to add_session_to_memory
  pc,              \* position of the call being executed
  idx,             \* index of the event the loop of add_session_to_memory is at
  posts,           \* payloads POSTed to /memory/add so far, in order
  post_events,     \* for each POST, the index of the event it was issued for
  outcomes,        \* outcome of each completed POST, in order
  in_flight,       \* number of requests awaiting their response
  memories_added,  \* the local counter of add_session_to_memory
  raised,          \* TRUE iff the call raised to its caller
  search_args,     \* app_name, user_id, query given to search_memory
  search_request,  \* body POSTed to /memory/query (<<>> before the POST)
  search_reply,    \* what the query POST produced (<<>> before it returns)
  memories,        \* SearchMemoryResponse.memories of the finished call
  memory_sources,  \* for each returned memory, the index of its match
  codec_in,        \* event and text given to the write/read pair
  codec_written,   \* content produced by _prepare_memory_data
  codec_parsed     \* entry produced from it by _convert_to_memory_entry

vars == <<config_args, config, session, pc, idx, posts, post_events, outcomes, in_flight,
          memories_added, raised, search_args, search_request, search_reply,
          memories, memory_sources, codec_in, codec_written, codec_parsed>>

add_vars == <<session, idx, posts, post_events, outcomes, in_flight,
              memories_added>>
search_vars == <<search_args, search_request, search_reply, memories,
                 memory_sources>>
codec_vars == <<codec_in, codec_written, codec_parsed>>

-----------------------------------------------------------------------------
(* Bounds of the model *)

MaxEvents == 2      \* events in a session
MaxMatches == 2     \* matches in a backend response
MaxTextLen == 4     \* characters of an event text in the codec runs

-----------------------------------------------------------------------------
(* Python values *)

\* None, as a value no string of one-character elements equals.
None == <<"None">>

\* Truth value of an Optional[str]: None and '' are falsy.
Truthy(s) == s # None /\ s # <<>>

\* Characters matched by \s and removed by str.strip().
Whitespace == {" ", "\t", "\n"}

UpperChars == <<"A","D","E","L","M","O","R","S","T","U">>
LowerChars == <<"a","d","e","l","m","o","r","s","t","u">>

LowerChar(c) ==
  IF \E i \in 1..Len(UpperChars) : UpperChars[i] = c
  THEN LowerChars[CHOOSE i \in 1..Len(UpperChars) : UpperChars[i] = c]
  ELSE c

\* str.lower()
Lower(s) == [i \in 1..Len(s) |-> LowerChar(s[i])]

\* sep.join(strs)
RECURSIVE Join(_, _)
Join(strs, sep) ==
  IF Len(strs) = 0 THEN <<>>
  ELSE IF Len(strs) = 1 THEN strs[1]
  ELSE strs[1] \o sep \o Join(Tail(strs), sep)

\* str.strip()
RECURSIVE LStrip(_)
LStrip(s) ==
  IF Len(s) > 0 /\ s[1] \in Whitespace THEN LStrip(Tail(s)) ELSE s

RECURSIVE RStrip(_)
RStrip(s) ==
  IF Len(s) > 0 /\ s[Len(s)] \in Whitespace
  THEN RStrip(SubSeq(s, 1, Len(s) - 1)) ELSE s

Strip(s) == RStrip(LStrip(s))

\* String literals of the source.
S_user == <<"u","s","e","r">>
S_model == <<"m","o","d","e","l">>
S_AuthorColon == <<"A","u","t","h","o","r",":">>
S_TimeColon == <<"T","i","m","e",":">>
S_session == <<"s","e","s","s","i","o","n",":">>
S_app == <<"a","p","p",":">>
S_author == <<"a","u","t","h","o","r",":">>
S_adk_session == <<"a","d","k","_","s","e","s","s","i","o","n">>

-----------------------------------------------------------------------------
(* OpenMemoryServiceConfig *)

DefaultConfig ==
  [search_top_k |-> 10, timeout |-> 30,
   user_content_salience |-> 80, model_content_salience |-> 70,
   default_salience |-> 60, enable_metadata_tags |-> TRUE]

\* The configurations the calls are run under: the default one, one with
\* every value customised and tagging off, one customised with tagging on.
Configs ==
  { DefaultConfig,
    [search_top_k |-> 20, timeout |-> 10,
     user_content_salience |-> 90, model_content_salience |-> 75,
     default_salience |-> 50, enable_metadata_tags |-> FALSE],
    [search_top_k |-> 5, timeout |-> 30,
     user_content_salience |-> 90, model_content_salience |-> 65,
     default_salience |-> 60, enable_metadata_tags |-> TRUE] }

-----------------------------------------------------------------------------
(* Collaborators: Event, Session, _utils.format_timestamp *)

Digits == <<"0","1","2","3","4","5","6","7","8","9">>

\* _utils.format_timestamp: an ISO style rendering of the raw timestamp.
format_timestamp(t) == <<"T", Digits[(t \div 10) + 1], ":", Digits[(t % 10) + 1]>>

\* types.Part: a text part, or a non-text part (a function call) whose
\* text is None.
TextPart(s) == [text |-> s, function_call |-> FALSE]
FunctionCallPart == [text |-> None, function_call |-> TRUE]

\* Event.content: absent, or a Content with its parts.
NoContent == [present |-> FALSE, parts |-> <<>>]
Content(ps) == [present |-> TRUE, parts |-> ps]

\* Event: the fields the service reads.  The timestamp is a number; 0 is the
\* falsy timestamp, for which no time is written.
Event(id, author, timestamp, content) ==
  [id |-> id, invocation_id |-> <<"i">> \o id, author |-> author,
   timestamp |-> timestamp, content |-> content]

\* The events sessions are made of: the authors of the salience table in
\* several capitalisations, other and absent authors, zero and non-zero
\* timestamps, and contents with text, without text and absent.
EventPool ==
  { Event(<<"1">>, S_user, 1, Content(<<TextPart(<<"h","i">>)>>)),
    Event(<<"2">>, <<"U","s","e","r">>, 2,
          Content(<<TextPart(<<"a">>), FunctionCallPart, TextPart(<<"b">>)>>)),
    Event(<<"3">>, <<"M","O","D","E","L">>, 0, Content(<<TextPart(<<"o","k">>)>>)),
    Event(<<"4">>, <<"a","g","e","n","t">>, 3, Content(<<FunctionCallPart>>)),
    Event(<<"5">>, None, 0, Content(<<TextPart(<<"h","i">>)>>)),
    Event(<<"6">>, <<>>, 4, Content(<<TextPart(<<>>), TextPart(<<"x">>)>>)),
    Event(<<"7">>, S_user, 5, NoContent),
    Event(<<"8">>, S_model, 6, Content(<<>>)),
    Event(<<"9">>, <<"a","g","e","n","t">>, 7, Content(<<TextPart(<<" ","y">>)>>)) }

AppNames == { <<"a","1">>, <<"a","2">> }
UserIds == { <<"u","1">>, <<"u","2">> }

RECURSIVE SeqsUpTo(_, _)
SeqsUpTo(S, n) ==
  IF n = 0 THEN { <<>> }
  ELSE LET shorter == SeqsUpTo(S, n - 1)
       IN shorter \cup { Append(s, x) : s \in shorter, x \in S }

Sessions ==
  { [app_name |-> a, user_id |-> u, id |-> <<"s","1">>, events |-> es] :
      a \in AppNames, u \in UserIds, es \in SeqsUpTo(EventPool, MaxEvents) }

NoSession ==
  [app_name |-> <<>>, user_id |-> <<>>, id |-> <<>>, events |-> <<>>]

-----------------------------------------------------------------------------
(* The write path *)

\* As _extract_text_from_event, but reading the first part alone.
_extract_text_first_part(event) ==
  IF ~event.content.present \/ event.content.parts = <<>>
  THEN <<>>
  ELSE IF Truthy(event.content.parts[1].text)
  THEN event.content.parts[1].text ELSE <<>>

HasText(part) == Truthy(part.text)

\* ' '.join(part.text for part in event.content.parts if part.text), or ''
\* when the event has no content or no parts.
_extract_text_from_event(event) ==
  IF ~event.content.present \/ event.content.parts = <<>>
  THEN <<>>
  ELSE LET text_parts == SelectSeq(event.content.parts, HasText)
       IN Join([i \in 1..Len(text_parts) |-> text_parts[i].text], <<" ">>)

\* As _determine_salience, but comparing the author as written.
_determine_salience_case_sensitive(cfg, author) ==
  IF ~Truthy(author) THEN cfg.default_salience
  ELSE IF author = S_user THEN cfg.user_content_salience
  ELSE IF author = S_model THEN cfg.model_content_salience
  ELSE cfg.default_salience

_determine_salience(cfg, author) ==
  IF ~Truthy(author) THEN cfg.default_salience
  ELSE LET author_lower == Lower(author)
       IN IF author_lower = S_user THEN cfg.user_content_salience
          ELSE IF author_lower = S_model THEN cfg.model_content_salience
          ELSE cfg.default_salience

\* The enriched content: the bracketed prefix made of whichever of author
\* and formatted timestamp are present, then the text.
EnrichedContent(event, content_text) ==
  LET timestamp_str == IF event.timestamp # 0
                       THEN format_timestamp(event.timestamp) ELSE None
      metadata_parts ==
        (IF Truthy(event.author)
         THEN << S_AuthorColon \o <<" ">> \o event.author >> ELSE <<>>)
        \o (IF Truthy(timestamp_str)
            THEN << S_TimeColon \o <<" ">> \o timestamp_str >> ELSE <<>>)
  IN IF metadata_parts # <<>>
     THEN <<"[">> \o Join(metadata_parts, <<",", " ">>) \o <<"]", " ">>
          \o content_text
     ELSE content_text

\* As MemoryTags, but naming the application tag after the metadata key.
MemoryTags_app_name_prefix(event, sess) ==
  SelectSeq(<< S_session \o sess.id,
               <<"a","p","p","_","n","a","m","e",":">> \o sess.app_name,
               IF Truthy(event.author) THEN S_author \o event.author
               ELSE None >>,
            Truthy)

\* As MemoryTags, but formatting the author tag of an absent author too.
MemoryTags_unfiltered(event, sess) ==
  << S_session \o sess.id,
     S_app \o sess.app_name,
     S_author \o (IF event.author = None THEN <<"N","o","n","e">>
                  ELSE event.author) >>

\* The tags of a record when tagging is enabled: None values removed.
MemoryTags(event, sess) ==
  SelectSeq(<< S_session \o sess.id,
               S_app \o sess.app_name,
               IF Truthy(event.author) THEN S_author \o event.author
               ELSE None >>,
            Truthy)

_prepare_memory_data(cfg, event, content_text, sess) ==
  LET metadata ==
        [app_name |-> sess.app_name, user_id |-> sess.user_id,
         session_id |-> sess.id, event_id |-> event.id,
         invocation_id |-> event.invocation_id, author |-> event.author,
         timestamp |-> event.timestamp, source |-> S_adk_session]
      memory_data ==
        [content |-> EnrichedContent(event, content_text),
         metadata |-> metadata,
         salience |-> _determine_salience(cfg, event.author)]
  IN IF cfg.enable_metadata_tags
     THEN [k \in DOMAIN memory_data \cup {"tags"} |->
             IF k = "tags" THEN MemoryTags(event, sess) ELSE memory_data[k]]
     ELSE memory_data

\* The JSON body of POST /memory/add.
AddPayload(memory_data, sess) ==
  [content |-> memory_data.content,
   tags |-> IF "tags" \in DOMAIN memory_data THEN memory_data.tags ELSE <<>>,
   metadata |-> memory_data.metadata,
   salience |-> memory_data.salience,
   user_id |-> sess.user_id]

\* What a POST can produce: a success status, a non-success status
\* (raise_for_status raises), or a transport failure such as a timeout
\* (post itself raises).
HttpOutcomes == {"ok", "status_error", "transport_error"}

SearchIdle ==
  /\ search_args = <<>>
  /\ search_request = <<>>
  /\ search_reply = <<>>
  /\ memories = <<>>
  /\ memory_sources = <<>>

CodecIdle ==
  /\ codec_in = <<>>
  /\ codec_written = <<>>
  /\ codec_parsed = <<>>

AddInit ==
  /\ config \in Configs
  /\ config_args = config
  /\ session \in Sessions
  /\ pc = "add_idle"
  /\ idx = 0
  /\ posts = <<>>
  /\ post_events = <<>>
  /\ outcomes = <<>>
  /\ in_flight = 0
  /\ memories_added = 0
  /\ raised = FALSE
  /\ SearchIdle
  /\ CodecIdle

\* add_session_to_memory is called: the client is opened, the loop starts.
AddStart ==
  /\ pc = "add_idle"
  /\ pc' = "add_loop"
  /\ idx' = 1
  /\ memories_added' = 0
  /\ UNCHANGED <<config_args, config, session, posts, post_events, outcomes, in_flight,
                 raised, search_vars, codec_vars>>

\* An event whose extracted text is empty: continue.
AddSkipEvent ==
  /\ pc = "add_loop"
  /\ idx <= Len(session.events)
  /\ ~Truthy(_extract_text_from_event(session.events[idx]))
  /\ idx' = idx + 1
  /\ UNCHANGED <<config_args, config, session, pc, posts, post_events, outcomes, in_flight,
                 memories_added, raised, search_vars, codec_vars>>

\* As PostIsAwaited, but with the request started as a task of its own and
\* the loop going on without its response.
PostIsAwaited_fire_and_forget == FALSE

\* TRUE iff the loop suspends at the POST until its response is there:
\* response = await http_client.post(...).
PostIsAwaited == TRUE

\* An event with text: the record is prepared and POSTed; the call awaits
\* the response.
AddPost ==
  /\ pc = "add_loop"
  /\ idx <= Len(session.events)
  /\ LET event == session.events[idx]
         content_text == _extract_text_from_event(event)
     IN /\ Truthy(content_text)
        /\ posts' = Append(posts,
             AddPayload(_prepare_memory_data(config, event, content_text,
                                             session), session))
  /\ post_events' = Append(post_events, idx)
  /\ in_flight' = in_flight + 1
  /\ IF PostIsAwaited
     THEN pc' = "add_posting" /\ idx' = idx
     ELSE pc' = "add_loop" /\ idx' = idx + 1
  /\ UNCHANGED <<config_args, config, session, outcomes, memories_added, raised,
                 search_vars, codec_vars>>

\* As AddContinuesAfter, but with an except clause for HTTP status errors
\* alone.
AddContinuesAfter_status_only(o) == o # "transport_error"

\* TRUE iff the loop goes on to the next event after a POST ended with
\* outcome o: the except clause catches every failure.
AddContinuesAfter(o) == TRUE

\* The awaited POST ends: counted when it succeeded, logged when it failed.
AddPostReturns ==
  /\ pc = "add_posting"
  /\ \E o \in HttpOutcomes :
       /\ outcomes' = Append(outcomes, o)
       /\ memories_added' = IF o = "ok" THEN memories_added + 1
                            ELSE memories_added
       /\ IF AddContinuesAfter(o)
          THEN /\ pc' = "add_loop"
               /\ idx' = idx + 1
               /\ raised' = raised
          ELSE /\ pc' = "add_done"
               /\ idx' = idx
               /\ raised' = TRUE
  /\ in_flight' = in_flight - 1
  /\ UNCHANGED <<config_args, config, session, posts, post_events, search_vars, codec_vars>>

\* The loop is over: the client is closed and the call returns.
AddReturn ==
  /\ pc = "add_loop"
  /\ idx > Len(session.events)
  /\ pc' = "add_done"
  /\ UNCHANGED <<config_args, config, session, idx, posts, post_events, outcomes,
                 in_flight, memories_added, raised, search_vars, codec_vars>>

Next ==
  \/ AddStart
  \/ AddSkipEvent
  \/ AddPost
  \/ AddPostReturns
  \/ AddReturn

Spec == AddInit /\ [][Next]_vars

-----------------------------------------------------------------------------
(* Construction of the configuration, then of the service, then a write *)

\* The limits of the fields: Field(ge=1, le=100), Field(gt=0.0) and
\* Field(ge=0.0, le=1.0), the salience limits in hundredths.
TopKMin == 1
TopKMax == 100
TimeoutFloor == 0
SalienceMin == 0
SalienceMax == 100

SalienceFields ==
  {"user_content_salience", "model_content_salience", "default_salience"}

\* As FieldErrors, but with the salience fields declared without le=1.0.
FieldErrors_no_salience_maximum(args) ==
  (IF args.search_top_k >= TopKMin /\ args.search_top_k <= TopKMax
   THEN {} ELSE {"search_top_k"})
  \cup (IF args.timeout > TimeoutFloor THEN {} ELSE {"timeout"})
  \cup { f \in SalienceFields : ~(args[f] >= SalienceMin) }

\* The fields of args that pydantic's validation rejects.
FieldErrors(args) ==
  (IF args.search_top_k >= TopKMin /\ args.search_top_k <= TopKMax
   THEN {} ELSE {"search_top_k"})
  \cup (IF args.timeout > TimeoutFloor THEN {} ELSE {"timeout"})
  \cup { f \in SalienceFields :
           ~(args[f] >= SalienceMin /\ args[f] <= SalienceMax) }

\* The argument values tried: around each limit, and inside the ranges.
ConfigArgs ==
  [search_top_k : {TopKMin - 1, TopKMin, TopKMax, TopKMax + 1},
   timeout : {TimeoutFloor - 1, TimeoutFloor, TimeoutFloor + 1},
   user_content_salience :
     {SalienceMin - 1, SalienceMin, 80, SalienceMax, SalienceMax + 1},
   model_content_salience :
     {SalienceMin - 1, SalienceMin, 70, SalienceMax, SalienceMax + 1},
   default_salience :
     {SalienceMin - 1, SalienceMin, 60, SalienceMax, SalienceMax + 1},
   enable_metadata_tags : BOOLEAN]

\* The session written once the service is constructed: events of the
\* user, of the model and of no author, and one without content.
ConfigSession ==
  [app_name |-> <<"a","1">>, user_id |-> <<"u","1">>, id |-> <<"s","1">>,
   events |->
     << Event(<<"1">>, S_user, 1, Content(<<TextPart(<<"h","i">>)>>)),
        Event(<<"3">>, <<"M","O","D","E","L">>, 0,
              Content(<<TextPart(<<"o","k">>)>>)),
        Event(<<"7">>, S_user, 5, NoContent),
        Event(<<"5">>, None, 0, Content(<<TextPart(<<"h","i">>)>>)) >>]

ConfigInit ==
  /\ config_args \in ConfigArgs
  /\ config = <<>>
  /\ session = ConfigSession
  /\ pc = "config_idle"
  /\ idx = 0
  /\ posts = <<>>
  /\ post_events = <<>>
  /\ outcomes = <<>>
  /\ in_flight = 0
  /\ memories_added = 0
  /\ raised = FALSE
  /\ SearchIdle
  /\ CodecIdle

\* OpenMemoryServiceConfig(**config_args): a ValidationError when a field
\* is rejected, else the configuration, with which the service is made.
ConstructConfig ==
  /\ pc = "config_idle"
  /\ IF FieldErrors(config_args) = {}
     THEN /\ config' = config_args
          /\ pc' = "add_idle"
          /\ raised' = FALSE
     ELSE /\ config' = config
          /\ pc' = "config_failed"
          /\ raised' = TRUE
  /\ UNCHANGED <<config_args, add_vars, search_vars, codec_vars>>

ConfigNext ==
  \/ ConstructConfig
  \/ AddStart
  \/ AddSkipEvent
  \/ AddPost
  \/ AddPostReturns
  \/ AddReturn

ConfigSpec == ConfigInit /\ [][ConfigNext]_vars

-----------------------------------------------------------------------------
(* JSON values of the backend's responses *)

JStr(str) == [type |-> "str", val |-> str]
JNull == [type |-> "null", val |-> <<>>]
JList(xs) == [type |-> "list", val |-> xs]
JObj(fields) == [type |-> "object", val |-> fields]

\* dict: key in d
HasKey(d, k) == d.type = "object" /\ k \in DOMAIN d.val

-----------------------------------------------------------------------------
(* The read path *)

\* As _build_search_payload, but with the default limit written in.
_build_search_payload_fixed_k(cfg, app_name, user_id, query) ==
  [query |-> query,
   k |-> DefaultConfig.search_top_k,
   filter |-> IF cfg.enable_metadata_tags
              THEN [user_id |-> user_id, tags |-> << S_app \o app_name >>]
              ELSE [user_id |-> user_id]]

_build_search_payload(cfg, app_name, user_id, query) ==
  [query |-> query,
   k |-> cfg.search_top_k,
   filter |-> IF cfg.enable_metadata_tags
              THEN [user_id |-> user_id, tags |-> << S_app \o app_name >>]
              ELSE [user_id |-> user_id]]

\* Index of the first "]" of s, 0 when there is none.
FirstClose(s) ==
  IF \E i \in 1..Len(s) : s[i] = "]"
  THEN CHOOSE i \in 1..Len(s) : s[i] = "]" /\ \A j \in 1..(i - 1) : s[j] # "]"
  ELSE 0

\* Length of the longest run of characters of S in s from index i on.
RECURSIVE RunLen(_, _, _)
RunLen(s, i, S) ==
  IF i <= Len(s) /\ s[i] \in S THEN 1 + RunLen(s, i + 1, S) ELSE 0

\* re.match(r'^\[([^\]]+)\]\s+(.*)', raw, re.DOTALL): the groups, or no
\* match.  Group 1 ends at the first "]"; \s+ takes the whole run of
\* whitespace after it; with DOTALL group 2 is all the rest.
MatchPrefix(raw) ==
  LET close == FirstClose(raw)
      spaces == RunLen(raw, close + 1, Whitespace)
  IN IF Len(raw) >= 1 /\ raw[1] = "[" /\ close >= 3 /\ spaces >= 1
     THEN [matched |-> TRUE,
           group1 |-> SubSeq(raw, 2, close - 1),
           group2 |-> SubSeq(raw, close + 1 + spaces, Len(raw))]
     ELSE [matched |-> FALSE, group1 |-> <<>>, group2 |-> <<>>]

\* Characters of the class [^,\]].
IsFieldChar(c) == c \notin {",", "]"}

\* The characters of s that are of the class.
FieldChars(s) == { s[i] : i \in { j \in 1..Len(s) : IsFieldChar(s[j]) } }

\* TRUE iff the literal key stands in s at index p.
KeyAt(s, key, p) ==
  /\ p + Len(key) - 1 <= Len(s)
  /\ SubSeq(s, p, p + Len(key) - 1) = key

\* The group of key\s*([^,\]]+) matched at index p of s, None when the
\* expression does not match there.  \s* first takes the whole run of
\* whitespace; when no field character follows, it gives one character
\* back, which then is the group.
FieldGroupAt(s, key, p) ==
  LET q == p + Len(key)
      w == RunLen(s, q, Whitespace)
      n == RunLen(s, q + w, FieldChars(s))
  IN IF ~KeyAt(s, key, p) THEN None
     ELSE IF n >= 1 THEN SubSeq(s, q + w, q + w + n - 1)
     ELSE IF w >= 1 THEN SubSeq(s, q + w - 1, q + w - 1)
     ELSE None

\* re.search(key + r'\s*([^,\]]+)', s): group 1 of the leftmost match,
\* None when there is no match.
SearchField(s, key) ==
  LET hits == { p \in 1..Len(s) : FieldGroupAt(s, key, p) # None }
  IN IF hits = {} THEN None
     ELSE FieldGroupAt(s, key, CHOOSE p \in hits : \A r \in hits : p <= r)

MemoryEntry(content_text, author, timestamp) ==
  [content |-> Content(<<TextPart(content_text)>>),
   author |-> author, timestamp |-> timestamp]

\* The body of the try block: the entry parsed from the string raw_content.
ParseEnriched(raw_content) ==
  LET match == MatchPrefix(raw_content)
      author_match == SearchField(match.group1, S_AuthorColon)
      time_match == SearchField(match.group1, S_TimeColon)
  IN IF match.matched
     THEN MemoryEntry(match.group2,
                      IF author_match # None THEN Strip(author_match) ELSE None,
                      IF time_match # None THEN Strip(time_match) ELSE None)
     ELSE MemoryEntry(raw_content, None, None)

\* The exception the try block raises on result, "" when it raises none:
\* result["content"] needs a mapping that has the key, re.match a string.
ConvertError(result) ==
  IF result.type # "object" THEN "TypeError"
  ELSE IF ~HasKey(result, "content") THEN "KeyError"
  ELSE IF result.val.content.type # "str" THEN "TypeError"
  ELSE ""

\* As ConvertCatches, but with an except clause for ValueError alone.
ConvertCatches_value_error_only(err) == err = "ValueError"

\* except (KeyError, ValueError)
ConvertCatches(err) == err \in {"KeyError", "ValueError"}

NoEntry == MemoryEntry(<<>>, None, None)

\* status "entry": a MemoryEntry is returned; "none": None is returned;
\* "raise": the exception leaves the method.
_convert_to_memory_entry(result) ==
  LET err == ConvertError(result)
  IN IF err = ""
     THEN [status |-> "entry", entry |-> ParseEnriched(result.val.content.val)]
     ELSE IF ConvertCatches(err)
     THEN [status |-> "none", entry |-> NoEntry]
     ELSE [status |-> "raise", entry |-> NoEntry]

\* The loop over the matches, from match i on, with the entries collected
\* so far and the indices of the matches they come from.
RECURSIVE CollectMatches(_, _, _, _)
CollectMatches(matches, i, found, from) ==
  IF i > Len(matches)
  THEN [error |-> "", memories |-> found, sources |-> from]
  ELSE LET memory_entry == _convert_to_memory_entry(matches[i])
       IN IF memory_entry.status = "raise"
          THEN [error |-> ConvertError(matches[i]), memories |-> <<>>,
                sources |-> <<>>]
          ELSE IF memory_entry.status = "entry"
          THEN CollectMatches(matches, i + 1,
                              Append(found, memory_entry.entry),
                              Append(from, i))
          ELSE CollectMatches(matches, i + 1, found, from)

\* The try block of search_memory once the POST has ended with reply:
\* the exception it raises ("" for none) and the memories collected.
SearchTry(reply) ==
  LET failed(err) == [error |-> err, memories |-> <<>>, sources |-> <<>>]
  IN IF reply.outcome = "status_error" THEN failed("HTTPStatusError")
     ELSE IF reply.outcome = "transport_error" THEN failed("TransportError")
     ELSE IF reply.body.type # "object" THEN failed("AttributeError")
     ELSE IF ~HasKey(reply.body, "matches")
     THEN [error |-> "", memories |-> <<>>, sources |-> <<>>]
     ELSE IF reply.body.val.matches.type # "list" THEN failed("TypeError")
     ELSE CollectMatches(reply.body.val.matches.val, 1, <<>>, <<>>)

\* As SearchCatches, but with an except clause for HTTP status errors alone.
SearchCatches_status_only(err) == err = "HTTPStatusError"

\* except Exception
SearchCatches(err) == TRUE

\* The matches responses are made of: enriched and plain contents of two
\* users, a match without content, one whose content is null and one that
\* is no mapping.
MatchPool ==
  { JObj([content |-> JStr(<<"[">> \o S_AuthorColon \o <<" ">> \o S_user
                          \o <<",", " ">> \o S_TimeColon \o <<" ">>
                          \o format_timestamp(1) \o <<"]", " ", "h", "i">>),
          user_id |-> JStr(<<"u","1">>)]),
    JObj([content |-> JStr(<<"[">> \o S_AuthorColon \o <<" ">> \o S_model
                          \o <<"]", " ", "o", "k">>),
          user_id |-> JStr(<<"u","2">>)]),
    JObj([content |-> JStr(<<"p">>), user_id |-> JStr(<<"u","1">>)]),
    JObj([user_id |-> JStr(<<"u","1">>)]),
    JObj([content |-> JNull, user_id |-> JStr(<<"u","2">>)]),
    JNull }

\* What the query POST can produce: a failure, or a success whose body is
\* an object with matches, an object without the key, or no object.
Replies ==
  { [outcome |-> o, body |-> JNull] : o \in HttpOutcomes \ {"ok"} }
  \cup { [outcome |-> "ok", body |-> JObj([matches |-> JList(ms)])] :
           ms \in SeqsUpTo(MatchPool, MaxMatches) }
  \cup { [outcome |-> "ok", body |-> b] :
           b \in { JObj(<<>>), JNull, JObj([matches |-> JNull]) } }

Queries == { <<"q">>, <<"p","y"," ","x">> }

SearchInit ==
  /\ config \in Configs
  /\ config_args = config
  /\ search_args \in [app_name : AppNames, user_id : UserIds, query : Queries]
  /\ pc = "search_idle"
  /\ search_request = <<>>
  /\ search_reply = <<>>
  /\ memories = <<>>
  /\ memory_sources = <<>>
  /\ raised = FALSE
  /\ session = NoSession
  /\ idx = 0
  /\ posts = <<>>
  /\ post_events = <<>>
  /\ outcomes = <<>>
  /\ in_flight = 0
  /\ memories_added = 0
  /\ CodecIdle

\* search_memory is called: the payload is built and POSTed to
\* /memory/query; the call awaits the response.
SearchPost ==
  /\ pc = "search_idle"
  /\ search_request' = _build_search_payload(
       config, search_args.app_name, search_args.user_id, search_args.query)
  /\ in_flight' = in_flight + 1
  /\ pc' = "search_posting"
  /\ UNCHANGED <<config_args, config, session, idx, posts, post_events, outcomes,
                 memories_added, raised, search_args, search_reply, memories,
                 memory_sources, codec_vars>>

\* The awaited POST ends: the matches are converted and the call returns,
\* with an empty result when anything was raised.
SearchPostReturns ==
  /\ pc = "search_posting"
  /\ \E reply \in Replies :
       LET try == SearchTry(reply)
       IN /\ search_reply' = reply
          /\ IF try.error = ""
             THEN /\ memories' = try.memories
                  /\ memory_sources' = try.sources
                  /\ raised' = FALSE
             ELSE /\ memories' = <<>>
                  /\ memory_sources' = <<>>
                  /\ raised' = ~SearchCatches(try.error)
  /\ in_flight' = in_flight - 1
  /\ pc' = "search_done"
  /\ UNCHANGED <<config_args, config, session, idx, posts, post_events, outcomes,
                 memories_added, search_args, search_request, codec_vars>>

SearchNext ==
  \/ SearchPost
  \/ SearchPostReturns

SearchSpec == SearchInit /\ [][SearchNext]_vars

-----------------------------------------------------------------------------
(* The enriched content written by the write path, read by the read path *)

MaxAuthorLen == 2   \* characters of an author in the codec runs

\* The strings of at most n characters of chars.
StringsUpTo(chars, n) == SeqsUpTo(chars, n)

CodecAuthors == {None} \cup StringsUpTo({"u", "s"}, MaxAuthorLen)
CodecTexts == StringsUpTo({"a", " ", "[", "]"}, MaxTextLen) \ { <<>> }
CodecTimestamps == {0, 12}

CodecSession ==
  [app_name |-> <<"a","1">>, user_id |-> <<"u","1">>, id |-> <<"s","1">>,
   events |-> <<>>]

CodecInit ==
  /\ config = DefaultConfig
  /\ config_args = config
  /\ codec_in \in [author : CodecAuthors, timestamp : CodecTimestamps,
                   text : CodecTexts]
  /\ codec_written = <<>>
  /\ codec_parsed = <<>>
  /\ pc = "codec_idle"
  /\ raised = FALSE
  /\ session = CodecSession
  /\ idx = 0
  /\ posts = <<>>
  /\ post_events = <<>>
  /\ outcomes = <<>>
  /\ in_flight = 0
  /\ memories_added = 0
  /\ SearchIdle

\* The write path prepares the record of an event whose only part holds
\* the text.
CodecWrite ==
  /\ pc = "codec_idle"
  /\ LET event == Event(<<"1">>, codec_in.author, codec_in.timestamp,
                        Content(<<TextPart(codec_in.text)>>))
     IN codec_written' =
          _prepare_memory_data(config, event, _extract_text_from_event(event),
                               session).content
  /\ pc' = "codec_written"
  /\ UNCHANGED <<config_args, config, add_vars, raised, search_vars, codec_in, codec_parsed>>

\* The read path converts a match whose content is the written string.
CodecRead ==
  /\ pc = "codec_written"
  /\ codec_parsed' =
       _convert_to_memory_entry(JObj([content |-> JStr(codec_written)])).entry
  /\ pc' = "codec_read"
  /\ UNCHANGED <<config_args, config, add_vars, raised, search_vars, codec_in, codec_written>>

CodecNext ==
  \/ CodecWrite
  \/ CodecRead

CodecSpec == CodecInit /\ [][CodecNext]_vars

-----------------------------------------------------------------------------
(* Properties of the write path, checked under Spec *)

\* An event has text when its content has a part with a non-empty text.
HasNonEmptyText(event) ==
  /\ event.content.present
  /\ \E k \in 1..Len(event.content.parts) : Truthy(event.content.parts[k].text)

TextEvents == { i \in 1..Len(session.events) : HasNonEmptyText(session.events[i]) }

\* TRUE iff a POST has been issued for event i.
Posted(i) == \E j \in 1..Len(post_events) : post_events[j] = i

\* The event POST j was issued for.
PostEvent(j) == session.events[post_events[j]]

\* C1: whatever POSTs fail, by a non-success status or a transport
\* exception, the loop goes on: every event with text the loop has passed
\* has had its POST attempted, the call never raises, and when it returns
\* it has gone through all the events.
C1_FailureDoesNotAbort ==
  /\ ~raised
  /\ \A i \in TextEvents : i < idx => Posted(i)
  /\ pc = "add_done" => idx = Len(session.events) + 1

\* C1 witness: the call has returned normally after its first POST failed
\* with a transport exception and a second POST was attempted.
C1_Witness ==
  /\ pc = "add_done"
  /\ ~raised
  /\ Len(outcomes) = 2
  /\ outcomes[1] = "transport_error"
  /\ Len(posts) = 2

\* C6: no request is issued for an event without text, no event gets two
\* requests, and at the end the number of POSTs is the number of events
\* with text.
C6_PostsAreTextEvents ==
  /\ \A j \in 1..Len(post_events) : post_events[j] \in TextEvents
  /\ \A j, k \in 1..Len(post_events) : j < k => post_events[j] < post_events[k]
  /\ Len(posts) = Len(post_events)
  /\ pc = "add_done" => Len(posts) = Cardinality(TextEvents)

\* C6 witness: a finished call on a session of an event without text and
\* one of two text parts, the first of them empty, with exactly one POST.
C6_Witness ==
  /\ pc = "add_done"
  /\ Len(session.events) = 2
  /\ ~HasNonEmptyText(session.events[1])
  /\ Len(session.events[2].content.parts) = 2
  /\ session.events[2].content.parts[1].text = <<>>
  /\ post_events = <<2>>

\* Two strings equal up to the case of their letters.
SameIgnoringCase(a, b) ==
  /\ Len(a) = Len(b)
  /\ \A i \in 1..Len(a) : LowerChar(a[i]) = LowerChar(b[i])

\* C7: the salience of every written record is the configured user
\* salience for author "user", the model salience for "model", compared
\* without regard to case, and the default salience for any other or no
\* author.
C7_SalienceByAuthor ==
  \A j \in 1..Len(posts) :
    LET author == PostEvent(j).author
    IN posts[j].salience =
         IF Truthy(author) /\ SameIgnoringCase(author, S_user)
         THEN config.user_content_salience
         ELSE IF Truthy(author) /\ SameIgnoringCase(author, S_model)
         THEN config.model_content_salience
         ELSE config.default_salience

\* C7 witness: under a custom configuration, an event of author "MODEL"
\* has been written with the custom model salience.
C7_Witness ==
  /\ config # DefaultConfig
  /\ \E j \in 1..Len(posts) :
       /\ PostEvent(j).author = <<"M","O","D","E","L">>
       /\ posts[j].salience = config.model_content_salience
       /\ posts[j].salience # config.default_salience

\* C10: with tagging disabled the tags of every written payload are the
\* empty sequence; with tagging enabled they are session:<id>, app:<name>
\* and author:<author> in this order, without the author tag when the
\* event has no author.
C10_WriteTags ==
  \A j \in 1..Len(posts) :
    posts[j].tags =
      IF ~config.enable_metadata_tags THEN <<>>
      ELSE << S_session \o session.id, S_app \o session.app_name >>
           \o (IF Truthy(PostEvent(j).author)
               THEN << S_author \o PostEvent(j).author >> ELSE <<>>)

\* C10 witness: with tagging enabled, an event without author has been
\* written with the two tags of its session and application.
C10_Witness ==
  /\ config.enable_metadata_tags
  /\ \E j \in 1..Len(posts) :
       /\ PostEvent(j).author = None
       /\ Len(posts[j].tags) = 2

\* C11: within one call the POSTs are issued one at a time in the order of
\* the session's events: at most one request is in flight, every request
\* but the one in flight has completed, so a request is never issued while
\* an earlier one is pending, and the events of the requests ascend.
C11_SequentialPosts ==
  /\ in_flight \in {0, 1}
  /\ Len(posts) = Len(outcomes) + in_flight
  /\ in_flight = 1 <=> pc = "add_posting"
  /\ \A j \in 1..Len(post_events) :
       \A k \in 1..Len(post_events) : j < k => post_events[j] < post_events[k]

\* C11 witness: the request of the second event is in flight after the
\* request of the first event has completed, here by failing.
C11_Witness ==
  /\ in_flight = 1
  /\ post_events = <<1, 2>>
  /\ Len(outcomes) = 1
  /\ outcomes[1] # "ok"

\* A written record satisfies a query filter when its top-level user_id is
\* the filter's and its tags contain every tag of the filter.
SatisfiesFilter(record, filter) ==
  /\ record.user_id = filter.user_id
  /\ "tags" \in DOMAIN filter =>
       \A i \in 1..Len(filter.tags) :
         \E k \in 1..Len(record.tags) : record.tags[k] = filter.tags[i]

\* The filter search_memory(app_name, user_id) sends under the service's
\* configuration.
FilterSent(app_name, user_id) ==
  _build_search_payload(config, app_name, user_id, <<"q">>).filter

\* C14: with tagging enabled, the filter of a search for application N and
\* user U has the one tag app:N, and a record written for a session
\* satisfies it exactly when the session is of application N and user U:
\* the records of the same application and user are found, those of
\* another user or another application are not.
C14_ScopingConsistency ==
  config.enable_metadata_tags =>
    \A j \in 1..Len(posts) :
      \A n \in AppNames :
        \A u \in UserIds :
          /\ FilterSent(n, u).tags = << S_app \o n >>
          /\ SatisfiesFilter(posts[j], FilterSent(n, u))
               <=> (n = session.app_name /\ u = session.user_id)

\* C14 witness: with tagging enabled a record has been written that
\* satisfies the filter of its own application and user, but neither the
\* filter of another user nor the filter of another application.
C14_Witness ==
  /\ config.enable_metadata_tags
  /\ Len(posts) >= 1
  /\ SatisfiesFilter(posts[1], FilterSent(session.app_name, session.user_id))
  /\ \E u \in UserIds \ {session.user_id} :
       ~SatisfiesFilter(posts[1], FilterSent(session.app_name, u))
  /\ \E n \in AppNames \ {session.app_name} :
       ~SatisfiesFilter(posts[1], FilterSent(n, session.user_id))

-----------------------------------------------------------------------------
(* Properties of the configuration, checked under ConfigSpec *)

\* The ranges of the fields as documented: search_top_k in [1,100], the
\* three salience values in [0,1], a positive timeout.
InDocumentedRanges(args) ==
  /\ args.search_top_k \in 1..100
  /\ args.timeout > 0
  /\ \A f \in SalienceFields : args[f] \in 0..100

\* C12: the construction fails, at once and before anything is written,
\* exactly when a value is outside its range; values inside the ranges
\* are accepted as given, and every salience written is within [0,1].
C12_ConfigValidation ==
  /\ pc # "config_idle" =>
       (pc = "config_failed" <=> ~InDocumentedRanges(config_args))
  /\ pc = "config_failed" => raised /\ posts = <<>>
  /\ pc \notin {"config_idle", "config_failed"} =>
       ~raised /\ config = config_args
  /\ \A j \in 1..Len(posts) : posts[j].salience \in 0..100

\* C12 witness: a construction has failed whose only value outside its
\* range is a salience of 1.01.
C12_Witness ==
  /\ pc = "config_failed"
  /\ config_args.search_top_k = 100
  /\ config_args.timeout > 0
  /\ config_args.user_content_salience = 101
  /\ config_args.model_content_salience = 0
  /\ config_args.default_salience = 100

-----------------------------------------------------------------------------
(* Properties of the read path, checked under SearchSpec *)

\* The matches of a successful response that has them, <<>> otherwise.
ReplyMatches ==
  IF /\ search_reply # <<>>
     /\ search_reply.outcome = "ok"
     /\ HasKey(search_reply.body, "matches")
     /\ search_reply.body.val.matches.type = "list"
  THEN search_reply.body.val.matches.val
  ELSE <<>>

\* A match as the backend documents it: a mapping whose content is a string.
ValidMatch(m) == HasKey(m, "content") /\ m.val.content.type = "str"

\* A mapping without the content key.
MissingContent(m) == m.type = "object" /\ ~HasKey(m, "content")

\* C2: search_memory never raises to its caller, and when the query POST
\* fails, by a non-success status or a transport exception such as a
\* timeout, the response returned has zero memories.
C2_SearchNeverRaises ==
  /\ ~raised
  /\ (pc = "search_done" /\ search_reply.outcome # "ok") => memories = <<>>

\* C2 witness: a call has returned, with no memories, after its POST
\* failed with a transport exception.
C2_Witness ==
  /\ pc = "search_done"
  /\ search_reply.outcome = "transport_error"
  /\ memories = <<>>
  /\ ~raised

\* C3: every memory search_memory returns comes from a match of the user
\* the search was made for.
C3_OnlyRequestedUser ==
  pc = "search_done" =>
    \A j \in 1..Len(memory_sources) :
      ReplyMatches[memory_sources[j]].val.user_id = JStr(search_args.user_id)

C13_MatchIsolation ==
  (pc = "search_done" /\ search_reply.outcome = "ok") =>
    /\ { memory_sources[j] : j \in 1..Len(memory_sources) }
         = { i \in 1..Len(ReplyMatches) : ValidMatch(ReplyMatches[i]) }
    /\ Len(memories) = Len(memory_sources)

-----------------------------------------------------------------------------
(* Properties of the enriched content, checked under CodecSpec *)

\* The formatted time of the event being written, None without timestamp.
CodecTime ==
  IF codec_in.timestamp # 0 THEN format_timestamp(codec_in.timestamp) ELSE None

\* The text of the parsed entry.
ParsedText == codec_parsed.content.parts[1].text

\* C4: for an event with an author A, the content written is
\* [Author: A, Time: T] X, or [Author: A] X without timestamp, and parsing
\* it gives back author A, time T (none without timestamp) and text X.
C4_RoundTrip ==
  (pc = "codec_read" /\ Truthy(codec_in.author)) =>
    /\ codec_written =
         <<"[">> \o S_AuthorColon \o <<" ">> \o codec_in.author
         \o (IF CodecTime # None
             THEN <<",", " ">> \o S_TimeColon \o <<" ">> \o CodecTime
             ELSE <<>>)
         \o <<"]", " ">> \o codec_in.text
    /\ codec_parsed.author = codec_in.author
    /\ codec_parsed.timestamp = CodecTime
    /\ ParsedText = codec_in.text

\* C5: for an event with neither author nor timestamp, the content written
\* is the text itself, and parsing it gives no author, no timestamp and
\* the whole text.
C5_PlainRoundTrip ==
  (pc = "codec_read" /\ ~Truthy(codec_in.author) /\ codec_in.timestamp = 0) =>
    /\ codec_written = codec_in.text
    /\ codec_parsed.author = None
    /\ codec_parsed.timestamp = None
    /\ ParsedText = codec_in.text

====
